---- MODULE Spec2Model ----
(***************************************************************************)
(* Model of the node layer of the rendy frame graph                         *)
(* (graph/src/node/mod.rs): the node builder, its projection to the         *)
(* scheduler record (chain), the resolution of bindings (build), the        *)
(* family selection of a type-erased description and the submission made    *)
(* by a type-erased node.                                                   *)
(***************************************************************************)
EXTENDS Integers, Sequences, FiniteSets, TLC

VARIABLES
    pc,          \* phase of graph construction
    cur,         \* the builder the application is filling
    curLog,      \* the mutator calls made on cur, in call order
    nodes,       \* builders handed to the graph, in declaration order
    logs,        \* the call log of each builder of nodes
    records,     \* chain::Node records produced so far
    chains,      \* the schedule: chain::Chains and the submission order
    allocated,   \* whether the graph's resources are allocated
    clears,      \* configured clear value of each image
    bufferCount, \* buffers the graph declares
    imageCount,  \* images the graph declares
    built,       \* results of NodeBuilder::build, per node
    families,    \* the queue families the factory reports
    familyCall,  \* last AnyNodeDesc::family call and its result
    runCalls,    \* AnyNode::run calls made
    typedRuns,   \* Node::run calls made
    call,        \* arguments of the last AnyNode::run call
    submitted,   \* submissions handed to each queue
    lastSubmit   \* the last Family::submit call

vars == <<pc, cur, curLog, nodes, logs, records, chains, allocated, clears,
          bufferCount, imageCount, built, families, familyCall, runCalls,
          typedRuns, call, submitted, lastSubmit>>

graphVars == <<pc, cur, curLog, nodes, logs, records, chains, allocated,
               clears, bufferCount, imageCount, built>>
familyVars == <<familyCall>>
runVars == <<runCalls, typedRuns, call, submitted, lastSubmit>>

-----------------------------------------------------------------------------
(* Bounds *)
MaxNodes == 2
MaxBuffers == 2
MaxImages == 2
MaxStates == 2
MaxAdds == 2
MaxCalls == 4
MaxFamilies == 2
MaxSync == 2
MaxRuns == 1

-----------------------------------------------------------------------------
(* Option and panic values *)
None == [some |-> FALSE]
Some(v) == [some |-> TRUE, value |-> v]
Panic == [tag |-> "panic"]
Ok(v) == [tag |-> "ok", value |-> v]
IsPanic(r) == r.tag = "panic"

SeqUpTo(S, n) == UNION {[1..k -> S] : k \in 0..n}

Min(a, b) == IF a <= b THEN a ELSE b

\* Iterator::zip: stops at the shorter of the two
Zip(s, t) == [k \in 1..Min(Len(s), Len(t)) |-> <<s[k], t[k]>>]

-----------------------------------------------------------------------------
(* Capabilities and queue families (command module) *)

Capabilities == {"Transfer", "Execute", "Compute", "Graphics", "General"}

\* The operations a capability level includes.
CapabilityOps(c) ==
    CASE c = "Transfer" -> {"transfer"}
      [] c = "Execute"  -> {"execute"}
      [] c = "Compute"  -> {"transfer", "execute", "compute"}
      [] c = "Graphics" -> {"transfer", "execute", "graphics"}
      [] c = "General"  -> {"transfer", "execute", "compute", "graphics"}

\* Supports::<C>::supports(&capability).is_some()
supports(capability, required) ==
    CapabilityOps(required) \subseteq CapabilityOps(capability)

FamilyIds == 0..MaxFamilies
Family == [index : FamilyIds, capability : Capabilities]

\* Mutant: the last qualifying family instead of the first.
family_last(required, fams) ==
    LET hits == {k \in 1..Len(fams) : supports(fams[k].capability, required)}
    IN  IF hits = {} THEN None
        ELSE Some(fams[CHOOSE k \in hits : \A j \in hits : j <= k].index)

\* AnyNodeDesc::family: families.iter().find(supports).map(|f| f.index())
family(required, fams) ==
    LET hits == {k \in 1..Len(fams) : supports(fams[k].capability, required)}
    IN  IF hits = {} THEN None
        ELSE Some(fams[CHOOSE k \in hits : \A j \in hits : k <= j].index)

-----------------------------------------------------------------------------
(* Descriptions and builders *)

\* The state a description declares at position k of a kind of resource.
DeclaredAt(kind, k) == [resource |-> kind, position |-> k]

\* A description: the node type's capability and the states it declares for
\* its buffers and its images, by position.
Desc(c, nb, ni) ==
    [capability |-> c,
     buffers |-> [k \in 1..nb |-> DeclaredAt("buffer", k)],
     images |-> [k \in 1..ni |-> DeclaredAt("image", k)]]

Descs == {Desc(c, nb, ni) : c \in {"Compute", "Graphics"},
                            nb \in 0..MaxStates, ni \in 0..MaxStates}

\* AnyNodeDesc::buffers / AnyNodeDesc::images forward to the typed description
desc_buffers(desc) == desc.buffers
desc_images(desc) == desc.images

\* NodeDesc::builder / AnyNodeDesc::builder
builder(desc) ==
    [desc |-> desc, buffers |-> <<>>, images |-> <<>>, dependencies |-> <<>>]

\* Mutant: the buffer is put in front of the sequence.
add_buffer_front(b, buffer) == [b EXCEPT !.buffers = <<buffer>> \o @]

add_buffer(b, buffer) == [b EXCEPT !.buffers = Append(@, buffer)]

\* Mutant: the image is put in front of the sequence.
add_image_front(b, image) == [b EXCEPT !.images = <<image>> \o @]

add_image(b, image) == [b EXCEPT !.images = Append(@, image)]

add_dependency(b, dependency) == [b EXCEPT !.dependencies = Append(@, dependency)]

with_buffer(b, buffer) == add_buffer(b, buffer)
with_image(b, image) == add_image(b, image)
with_dependency(b, dependency) == add_dependency(b, dependency)

-----------------------------------------------------------------------------
(* NodeBuilder::chain *)

\* chain::Id(id.0)
chain_buffer_id(id) == id

\* Mutant: the image key is not offset.
chain_image_id_raw(id, buffers) == id

\* chain::Id(id.0 + buffers)
chain_image_id(id, buffers) == id + buffers

\* Mutant: a node without a family is put on family 0.
chain_default_family(b, id, fams, buffers) ==
    LET fam == family(b.desc.capability, fams) IN
    Ok([id |-> id,
        family |-> IF fam.some THEN fam.value ELSE 0,
        dependencies |-> b.dependencies,
        buffers |-> Zip([k \in 1..Len(b.buffers) |-> chain_buffer_id(b.buffers[k])],
                        desc_buffers(b.desc)),
        images |-> Zip([k \in 1..Len(b.images) |-> chain_image_id(b.images[k], buffers)],
                       desc_images(b.desc))])

chain(b, id, fams, buffers) ==
    LET fam == family(b.desc.capability, fams) IN
    IF ~fam.some THEN Panic   \* Option::unwrap on None
    ELSE Ok([id |-> id,
             family |-> fam.value,
             dependencies |-> b.dependencies,
             buffers |-> Zip([k \in 1..Len(b.buffers) |-> chain_buffer_id(b.buffers[k])],
                        desc_buffers(b.desc)),
             images |-> Zip([k \in 1..Len(b.images) |-> chain_image_id(b.images[k], buffers)],
                       desc_images(b.desc))])


-----------------------------------------------------------------------------
(* The scheduler (chain module): one link per consumer of a resource, in    *)
(* submission order.                                                        *)

Keys(pairs) == {pairs[k][1] : k \in 1..Len(pairs)}

\* The state a record declares for a key (a later pair overrides an earlier).
DeclaredState(pairs, key) ==
    LET at == {k \in 1..Len(pairs) : pairs[k][1] = key}
    IN  pairs[CHOOSE k \in at : \A j \in at : j <= k][2]

\* The links of one resource: its consumers in submission order.
Links(recs, order, kind, key) ==
    LET uses(n) == key \in Keys(recs[n + 1][kind])
        users == SelectSeq(order, uses)
    IN  [k \in 1..Len(users) |->
            [node |-> users[k],
             state |-> DeclaredState(recs[users[k] + 1][kind], key)]]

\* Position of a node in a link list, from 0.
LinkIndex(links, n) == (CHOOSE k \in 1..Len(links) : links[k].node = n) - 1

\* chain::Submission of node n: its id and the link index of each resource.
SubmissionOf(recs, order, n) ==
    LET bk == Keys(recs[n + 1].buffers)
        ik == Keys(recs[n + 1].images)
    IN  [id |-> n,
         resource_links |->
            [key \in bk \cup ik |->
                IF key \in bk
                THEN LinkIndex(Links(recs, order, "buffers", key), n)
                ELSE LinkIndex(Links(recs, order, "images", key), n)]]

AllKeys(recs, kind) == UNION {Keys(recs[k][kind]) : k \in 1..Len(recs)}

\* The schedule of the graph for a submission order.
Schedule(recs, order) ==
    [order |-> order,
     buffers |-> [key \in AllKeys(recs, "buffers") |->
                     Links(recs, order, "buffers", key)],
     images |-> [key \in AllKeys(recs, "images") |->
                    Links(recs, order, "images", key)],
     submissions |-> [k \in 1..Len(recs) |-> SubmissionOf(recs, order, k - 1)]]

\* Submission::resource_link_index
resource_link_index(submission, id) ==
    IF id \in DOMAIN submission.resource_links
    THEN Ok(submission.resource_links[id])
    ELSE Panic

\* Link::submission_state
submission_state(link, sid) ==
    IF link.node = sid THEN Ok(link.state) ELSE Panic

\* Submission orders: every node once, each after its dependencies.
Orders(recs) ==
    {o \in [1..Len(recs) -> 0..(Len(recs) - 1)] :
        /\ \A n \in 0..(Len(recs) - 1) : \E k \in 1..Len(recs) : o[k] = n
        /\ \A k \in 1..Len(recs) :
              \A j \in 1..Len(recs[o[k] + 1].dependencies) :
                 \E i \in 1..(k - 1) : o[i] = recs[o[k] + 1].dependencies[j]}

-----------------------------------------------------------------------------
(* NodeBuilder::build *)

\* chains.<kind>[&id].links()[submission.resource_link_index(id)]
\*     .submission_state(submission.id())
ResolvedState(map, submission, id) ==
    IF id \notin DOMAIN map THEN Panic
    ELSE LET li == resource_link_index(submission, id) IN
         IF IsPanic(li) THEN Panic
         ELSE IF li.value >= Len(map[id]) THEN Panic
         ELSE submission_state(map[id][li.value + 1], submission.id)

build_buffer_id(index) == index

build_image_id(index, buffers) == index + buffers

\* The closure of build over self.buffers. `key` is not a field of NodeBuffer:
\* it records the scheduler key the closure looked up.
NodeBufferOf(index, buffers, sched, submission) ==
    LET id == build_buffer_id(index) IN
    IF index >= Len(buffers) THEN Panic
    ELSE LET st == ResolvedState(sched.buffers, submission, id) IN
         IF IsPanic(st) THEN Panic
         ELSE Ok([buffer |-> buffers[index + 1], state |-> st.value, key |-> id])

\* Mutant: the configured clear is attached whatever the link index is.
NodeImageOf_always(index, buffers, images, sched, submission) ==
    LET id == build_image_id(index, Len(buffers)) IN
    IF index >= Len(images) THEN Panic
    ELSE LET st == ResolvedState(sched.images, submission, id) IN
         IF IsPanic(st) THEN Panic
         ELSE Ok([image |-> images[index + 1][1], state |-> st.value,
                  clear |-> images[index + 1][2], key |-> id])

\* Mutant: the clear goes to the node declared first in the graph.
NodeImageOf_first_declared(index, buffers, images, sched, submission) ==
    LET id == build_image_id(index, Len(buffers)) IN
    IF index >= Len(images) THEN Panic
    ELSE LET st == ResolvedState(sched.images, submission, id) IN
         IF IsPanic(st) THEN Panic
         ELSE Ok([image |-> images[index + 1][1], state |-> st.value,
                  clear |-> IF submission.id = 0
                            THEN images[index + 1][2] ELSE None,
                  key |-> id])

\* The closure of build over self.images. `key` is not a field of NodeImage:
\* it records the scheduler key the closure looked up.
NodeImageOf(index, buffers, images, sched, submission) ==
    LET id == build_image_id(index, Len(buffers)) IN
    IF index >= Len(images) THEN Panic
    ELSE LET st == ResolvedState(sched.images, submission, id) IN
         IF IsPanic(st) THEN Panic
         ELSE Ok([image |-> images[index + 1][1], state |-> st.value,
                  clear |-> IF resource_link_index(submission, id).value = 0
                            THEN images[index + 1][2] ELSE None,
                  key |-> id])

\* What the typed NodeDesc::build of the application can return.
TypedOutcomes == {"ok", "err"}

\* NodeDesc::build: Result<Self::Node, failure::Error>. The typed build
\* belongs to the application: it either returns a node that keeps what it
\* was given or fails.
NodeDesc_build(outcome, fam, nodeBuffers, nodeImages) ==
    IF outcome = "ok"
    THEN [tag |-> "ok", family |-> fam, buffers |-> nodeBuffers, images |-> nodeImages]
    ELSE [tag |-> "err", error |-> "typed build failed"]

\* AnyNodeDesc::build: forwards the bindings to the typed description,
\* returns its error unchanged (`?`) and boxes the node otherwise.
desc_build(desc, fam, nodeBuffers, nodeImages, outcome) ==
    LET node == NodeDesc_build(outcome, fam, nodeBuffers, nodeImages) IN
    IF node.tag = "err" THEN node
    ELSE [tag |-> "node", family |-> node.family,
          buffers |-> node.buffers, images |-> node.images]

\* Mutant: the bindings are collected in reverse.
build_reversed(b, fam, buffers, images, sched, submission, outcome) ==
    LET bs == [k \in 1..Len(b.buffers) |->
                  NodeBufferOf(b.buffers[k], buffers, sched, submission)]
        is == [k \in 1..Len(b.images) |->
                  NodeImageOf(b.images[k], buffers, images, sched, submission)]
    IN  IF \/ \E k \in 1..Len(bs) : IsPanic(bs[k])
           \/ \E k \in 1..Len(is) : IsPanic(is[k])
        THEN Panic
        ELSE desc_build(b.desc, fam,
                        [k \in 1..Len(bs) |-> bs[Len(bs) + 1 - k].value],
                        [k \in 1..Len(is) |-> is[Len(is) + 1 - k].value],
                        outcome)

\* NodeBuilder::build: the bindings are collected first (an index out of
\* range panics), then the description builds the node or fails.
build(b, fam, buffers, images, sched, submission, outcome) ==
    LET bs == [k \in 1..Len(b.buffers) |->
                  NodeBufferOf(b.buffers[k], buffers, sched, submission)]
        is == [k \in 1..Len(b.images) |->
                  NodeImageOf(b.images[k], buffers, images, sched, submission)]
    IN  IF \/ \E k \in 1..Len(bs) : IsPanic(bs[k])
           \/ \E k \in 1..Len(is) : IsPanic(is[k])
        THEN Panic
        ELSE desc_build(b.desc, fam,
                        [k \in 1..Len(bs) |-> bs[k].value],
                        [k \in 1..Len(is) |-> is[k].value],
                        outcome)


-----------------------------------------------------------------------------
(* Graph construction: the application fills builders and hands them to the *)
(* graph; the graph chains every builder, schedules, allocates and builds.  *)

\* The queue families of the device the graph is built for.
GraphFamilies == <<[index |-> 0, capability |-> "Transfer"],
                   [index |-> 1, capability |-> "Compute"]>>

\* The concrete resources of the graph, by identifier.
BufferPool == [k \in 1..bufferCount |-> <<"buffer", k - 1>>]
ImagePool == [k \in 1..imageCount |-> <<<<"image", k - 1>>, clears[k]>>]

\* The clear value each image is created with: none, or its own value.
ClearConfigs ==
    {c \in [1..imageCount -> {None} \cup {Some(<<"clear", i>>) : i \in 0..(imageCount - 1)}] :
        \A k \in 1..imageCount : c[k].some => c[k].value = <<"clear", k - 1>>}

NoSchedule == [order |-> <<>>, buffers |-> <<>>, images |-> <<>>, submissions |-> <<>>]

IdleFamily == /\ familyCall = None
IdleRun == /\ runCalls = 0
           /\ typedRuns = 0
           /\ call = None
           /\ submitted = <<>>
           /\ lastSubmit = None
IdleGraph == /\ pc = "idle"
             /\ cur = None
             /\ curLog = <<>>
             /\ nodes = <<>>
             /\ logs = <<>>
             /\ records = <<>>
             /\ chains = NoSchedule
             /\ allocated = FALSE
             /\ clears = <<>>
             /\ bufferCount = 0
             /\ imageCount = 0
             /\ built = <<>>

Init ==
    /\ pc = "declare"
    /\ cur = None
    /\ curLog = <<>>
    /\ nodes = <<>>
    /\ logs = <<>>
    /\ records = <<>>
    /\ chains = NoSchedule
    /\ allocated = FALSE
    /\ bufferCount = MaxBuffers
    /\ imageCount = MaxImages
    /\ clears = <<>>
    /\ built = <<>>
    /\ families = GraphFamilies
    /\ IdleFamily
    /\ IdleRun

\* desc.builder()
NewBuilder(desc) ==
    /\ pc = "declare"
    /\ cur = None
    /\ Len(nodes) < MaxNodes
    /\ cur' = Some(builder(desc))
    /\ curLog' = <<>>
    /\ UNCHANGED <<pc, nodes, logs, records, chains, allocated, clears,
                   bufferCount, imageCount, built, families>>
    /\ UNCHANGED <<familyVars, runVars>>

\* One mutator call on the builder being filled; limit caps the number of
\* calls one builder receives.
Mutate(next, entry, limit) ==
    /\ pc = "declare"
    /\ cur # None
    /\ Len(curLog) < limit
    /\ cur' = Some(next)
    /\ curLog' = Append(curLog, entry)
    /\ UNCHANGED <<pc, nodes, logs, records, chains, allocated, clears,
                   bufferCount, imageCount, built, families>>
    /\ UNCHANGED <<familyVars, runVars>>

AddBuffer(id, limit) ==
    /\ cur # None
    /\ Mutate(add_buffer(cur.value, id), [op |-> "buffer", arg |-> id], limit)

AddImage(id, limit) ==
    /\ cur # None
    /\ Mutate(add_image(cur.value, id), [op |-> "image", arg |-> id], limit)

AddDependency(dep, limit) ==
    /\ cur # None
    /\ Mutate(add_dependency(cur.value, dep), [op |-> "dependency", arg |-> dep], limit)

WithBuffer(id, limit) ==
    /\ cur # None
    /\ Mutate(with_buffer(cur.value, id), [op |-> "buffer", arg |-> id], limit)

WithImage(id, limit) ==
    /\ cur # None
    /\ Mutate(with_image(cur.value, id), [op |-> "image", arg |-> id], limit)

WithDependency(dep, limit) ==
    /\ cur # None
    /\ Mutate(with_dependency(cur.value, dep), [op |-> "dependency", arg |-> dep], limit)

\* The builder is handed to the graph and gets the next node index.
AddNode ==
    /\ pc = "declare"
    /\ cur # None
    /\ nodes' = Append(nodes, cur.value)
    /\ logs' = Append(logs, curLog)
    /\ cur' = None
    /\ curLog' = <<>>
    /\ UNCHANGED <<pc, records, chains, allocated, clears,
                   bufferCount, imageCount, built, families>>
    /\ UNCHANGED <<familyVars, runVars>>

\* The graph chains the next builder; a panic ends the construction.
Chain ==
    /\ pc \in {"declare", "chain"}
    /\ cur = None
    /\ Len(records) < Len(nodes)
    /\ LET n == Len(records)
           r == chain(nodes[n + 1], n, families, bufferCount)
       IN  IF IsPanic(r)
           THEN /\ pc' = "fault"
                /\ UNCHANGED records
           ELSE /\ pc' = "chain"
                /\ records' = Append(records, r.value)
    /\ UNCHANGED <<cur, curLog, nodes, logs, chains, allocated, clears,
                   bufferCount, imageCount, built, families>>
    /\ UNCHANGED <<familyVars, runVars>>

\* The scheduler fixes a submission order and the links of every resource.
DoSchedule ==
    /\ pc = "chain"
    /\ Len(records) = Len(nodes)
    /\ \E order \in Orders(records) : chains' = Schedule(records, order)
    /\ pc' = "schedule"
    /\ UNCHANGED <<cur, curLog, nodes, logs, records, allocated, clears,
                   bufferCount, imageCount, built, families>>
    /\ UNCHANGED <<familyVars, runVars>>

\* The graph allocates its buffers and images.
Allocate ==
    /\ pc = "schedule"
    /\ allocated' = TRUE
    /\ clears' \in ClearConfigs
    /\ pc' = "build"
    /\ UNCHANGED <<cur, curLog, nodes, logs, records, chains,
                   bufferCount, imageCount, built, families>>
    /\ UNCHANGED <<familyVars, runVars>>

\* The graph builds the next node; a panic ends the construction, and so
\* does an error returned by the typed build.
Build(outcome) ==
    /\ pc = "build"
    /\ Len(built) < Len(nodes)
    /\ LET n == Len(built)
           r == build(nodes[n + 1], records[n + 1].family, BufferPool, ImagePool,
                      chains, chains.submissions[n + 1], outcome)
       IN  CASE r.tag = "panic" -> /\ pc' = "fault"
                                   /\ UNCHANGED built
             [] r.tag = "err"   -> /\ pc' = "error"
                                   /\ UNCHANGED built
             [] OTHER           -> /\ pc' = "build"
                                   /\ built' = Append(built, r)
    /\ UNCHANGED <<cur, curLog, nodes, logs, records, chains, allocated, clears,
                   bufferCount, imageCount, families>>
    /\ UNCHANGED <<familyVars, runVars>>

Next ==
    \/ \E desc \in {d \in Descs : Len(d.buffers) + Len(d.images) <= MaxStates} :
          NewBuilder(desc)
    \/ \E id \in 0..(bufferCount - 1) : AddBuffer(id, MaxAdds)
    \/ \E id \in 0..(imageCount - 1) : AddImage(id, MaxAdds)
    \/ \E dep \in 0..(Len(nodes) - 1) : AddDependency(dep, MaxAdds)
    \/ \E id \in 0..(bufferCount - 1) : WithBuffer(id, MaxAdds)
    \/ \E id \in 0..(imageCount - 1) : WithImage(id, MaxAdds)
    \/ \E dep \in 0..(Len(nodes) - 1) : WithDependency(dep, MaxAdds)
    \/ AddNode
    \/ Chain
    \/ DoSchedule
    \/ Allocate
    \/ \E outcome \in TypedOutcomes : Build(outcome)

Spec == Init /\ [][Next]_vars


-----------------------------------------------------------------------------
(* One builder on its own: any mutator calls, then the graph chains it.     *)

InitBuilder ==
    /\ pc = "declare"
    /\ \E c \in {"Compute", "Graphics"} :
          cur = Some(builder(Desc(c, MaxStates, MaxStates)))
    /\ curLog = <<>>
    /\ nodes = <<>>
    /\ logs = <<>>
    /\ records = <<>>
    /\ chains = NoSchedule
    /\ allocated = FALSE
    /\ bufferCount = MaxBuffers
    /\ imageCount = MaxImages
    /\ clears = <<>>
    /\ built = <<>>
    /\ families = GraphFamilies
    /\ IdleFamily
    /\ IdleRun

NextBuilder ==
    \/ \E id \in 0..(bufferCount - 1) : AddBuffer(id, MaxCalls)
    \/ \E id \in 0..(imageCount - 1) : AddImage(id, MaxCalls)
    \/ \E dep \in 0..(MaxNodes - 1) : AddDependency(dep, MaxCalls)
    \/ \E id \in 0..(bufferCount - 1) : WithBuffer(id, MaxCalls)
    \/ \E id \in 0..(imageCount - 1) : WithImage(id, MaxCalls)
    \/ \E dep \in 0..(MaxNodes - 1) : WithDependency(dep, MaxCalls)
    \/ AddNode
    \/ Chain

SpecBuilder == InitBuilder /\ [][NextBuilder]_vars

-----------------------------------------------------------------------------
(* Family selection on its own: any list of families, any required          *)
(* capability.                                                              *)

InitFamily ==
    /\ IdleGraph
    /\ IdleRun
    /\ families \in SeqUpTo(Family, MaxFamilies)
    /\ familyCall = None

\* desc.family(families) for a node type that requires `required`
FamilyCall(required) ==
    /\ familyCall' = Some([required |-> required,
                           result |-> family(required, families)])
    /\ UNCHANGED <<graphVars, families, runVars>>

NextFamily == \E required \in Capabilities : FamilyCall(required)

SpecFamily == InitFamily /\ [][NextFamily]_vars

-----------------------------------------------------------------------------
(* AnyNode::run *)

Semaphores == {"s1", "s2"}
\* The waits a caller can pass: a semaphore with the stage it is waited at.
WaitPairs == {<<"s1", "TOP_OF_PIPE">>, <<"s2", "BOTTOM_OF_PIPE">>}
Fences == {"fence"}
\* chain::QueueId: a family and the index of a queue of it
QueueIds == {[family |-> 0, index |-> 0], [family |-> 1, index |-> 0],
             [family |-> 1, index |-> 1]}

\* Node::run: the typed node records the commands of one more frame.
Node_run(runs) == [frame |-> runs + 1]

\* Mutant: the waits are handed over in reverse order.
AnyNode_run_reversed(qid, waits, signals, fence, submit) ==
    [family |-> qid.family,
     queue |-> qid.index,
     submissions |-> <<[waits |-> [k \in 1..Len(waits) |-> waits[Len(waits) + 1 - k]],
                        signals |-> signals,
                        submits |-> <<submit>>]>>,
     fence |-> fence]

\* The submit call AnyNode::run makes for the payload of the typed run.
AnyNode_run(qid, waits, signals, fence, submit) ==
    [family |-> qid.family,
     queue |-> qid.index,
     submissions |-> <<[waits |-> waits,
                        signals |-> signals,
                        submits |-> <<submit>>]>>,
     fence |-> fence]

\* Family::submit: every submission of the call goes to the queue.
Family_submit(queues, c) ==
    [queues EXCEPT ![[family |-> c.family, index |-> c.queue]] = @ + Len(c.submissions)]

InitRun ==
    /\ IdleGraph
    /\ IdleFamily
    /\ families = GraphFamilies
    /\ runCalls = 0
    /\ typedRuns = 0
    /\ call = None
    /\ submitted = [q \in QueueIds |-> 0]
    /\ lastSubmit = None

Run(qid, waits, signals, fence) ==
    /\ runCalls < MaxRuns
    /\ runCalls' = runCalls + 1
    /\ call' = Some([qid |-> qid, waits |-> waits, signals |-> signals, fence |-> fence])
    /\ typedRuns' = typedRuns + 1
    /\ LET c == AnyNode_run(qid, waits, signals, fence, Node_run(typedRuns))
       IN  /\ lastSubmit' = Some(c)
           /\ submitted' = Family_submit(submitted, c)
    /\ UNCHANGED <<graphVars, families, familyVars>>

NextRun ==
    \E qid \in QueueIds, waits \in SeqUpTo(WaitPairs, MaxSync),
       signals \in SeqUpTo(Semaphores, MaxSync), fence \in {None} \cup {Some(f) : f \in Fences} :
          Run(qid, waits, signals, fence)

SpecRun == InitRun /\ [][NextRun]_vars


-----------------------------------------------------------------------------
(* Properties *)

\* The key the scheduler knows image `id` by, and the link index the
\* submission of the k-th node reports for a key.
ImageKeyOf(id) == id + bufferCount
ReportedIndex(k, key) == chains.submissions[k].resource_links[key]
AllBuilt == pc = "build" /\ Len(built) = Len(nodes)

\* C1 as stated: an image binding carries a clear value if and only if the
\* link index reported for the image's key is 0.
C1_ClearIffLinkZero ==
    \A k \in 1..Len(built) : \A j \in 1..Len(built[k].images) :
        built[k].images[j].clear.some
            <=> ReportedIndex(k, ImageKeyOf(nodes[k].images[j])) = 0

\* C1 amended: an image binding carries the clear value the image was
\* configured with (which may be none) when the link index reported for the
\* image's key is 0, and none otherwise; so a clear is present if and only
\* if the link index is 0 and the image has a configured clear value.
C1_ClearIsConfiguredAtLinkZero ==
    \A k \in 1..Len(built) :
        /\ Len(built[k].images) = Len(nodes[k].images)
        /\ \A j \in 1..Len(built[k].images) :
              LET id == nodes[k].images[j]
                  first == ReportedIndex(k, ImageKeyOf(id)) = 0
              IN  /\ built[k].images[j].clear = IF first THEN clears[id + 1] ELSE None
                  /\ built[k].images[j].clear.some <=> (first /\ clears[id + 1].some)

C1_Witness ==
    \E k1, k2 \in 1..Len(built) :
        \E j1 \in 1..Len(built[k1].images), j2 \in 1..Len(built[k2].images) :
            /\ ReportedIndex(k1, ImageKeyOf(nodes[k1].images[j1])) = 0
            /\ built[k1].images[j1].clear.some
            /\ ReportedIndex(k2, ImageKeyOf(nodes[k2].images[j2])) = 1
            /\ ~built[k2].images[j2].clear.some

\* The nodes that declare image `id`, and those whose binding for it has a clear.
ImageUsers(id) ==
    {k \in 1..Len(nodes) : \E j \in 1..Len(nodes[k].images) : nodes[k].images[j] = id}
ClearReceivers(id) ==
    {k \in 1..Len(built) : \E j \in 1..Len(built[k].images) :
        nodes[k].images[j] = id /\ built[k].images[j].clear.some}

\* C2 as stated: once every node is built, exactly one of the nodes that
\* declare an image has a clear value in its binding for it.
C2_ExactlyOneClear ==
    AllBuilt =>
        \A id \in 0..(imageCount - 1) :
            ImageUsers(id) # {} => Cardinality(ClearReceivers(id)) = 1

\* C2 amended: once every node is built, for an image configured with a
\* clear value the only node whose bindings carry a clear is the node of the
\* image's link 0, and it carries the configured value; for an image
\* configured without one no node carries a clear.
C2_OnlyFirstLinkClears ==
    AllBuilt =>
        \A id \in 0..(imageCount - 1) :
            ImageUsers(id) # {} =>
                LET first == chains.images[ImageKeyOf(id)][1].node + 1 IN
                /\ first \in ImageUsers(id)
                /\ ClearReceivers(id) = IF clears[id + 1].some THEN {first} ELSE {}
                /\ \A j \in 1..Len(built[first].images) :
                      nodes[first].images[j] = id
                          => built[first].images[j].clear = clears[id + 1]

\* The node declared second is scheduled first on a shared image and is the
\* one that clears it.
C2_Witness ==
    /\ AllBuilt
    /\ \E id \in 0..(imageCount - 1) :
          /\ ImageUsers(id) = {1, 2}
          /\ chains.order = <<1, 0>>
          /\ ClearReceivers(id) = {2}

\* C3: the buffer bindings passed to the description are, position by
\* position, the concrete buffers of the declared identifiers with the state
\* of the link the submission reports for the identifier's key; the same for
\* images; and a build never panics on a builder without identifiers (it
\* ends without a node only when the typed build itself returns an error).
C3_BindingsFollowDeclaration ==
    /\ \A k \in 1..Len(built) :
          /\ Len(built[k].buffers) = Len(nodes[k].buffers)
          /\ Len(built[k].images) = Len(nodes[k].images)
          /\ \A j \in 1..Len(nodes[k].buffers) :
                LET id == nodes[k].buffers[j] IN
                /\ built[k].buffers[j].buffer = <<"buffer", id>>
                /\ built[k].buffers[j].state
                      = chains.buffers[id][ReportedIndex(k, id) + 1].state
          /\ \A j \in 1..Len(nodes[k].images) :
                LET id == nodes[k].images[j] IN
                /\ built[k].images[j].image = <<"image", id>>
                /\ built[k].images[j].state
                      = chains.images[ImageKeyOf(id)]
                                     [ReportedIndex(k, ImageKeyOf(id)) + 1].state
    /\ (pc = "fault" /\ allocated) =>
          (nodes[Len(built) + 1].buffers # <<>> \/ nodes[Len(built) + 1].images # <<>>)

\* One node built from buffers declared as 1 then 0 and one from images
\* declared as 1 then 0: each receives its bindings in that order, each
\* binding with its own state.
C3_Witness ==
    \E k1, k2 \in 1..Len(built) :
        /\ nodes[k1].buffers = <<1, 0>>
        /\ built[k1].buffers[1].buffer = <<"buffer", 1>>
        /\ built[k1].buffers[2].buffer = <<"buffer", 0>>
        /\ built[k1].buffers[1].state # built[k1].buffers[2].state
        /\ nodes[k2].images = <<1, 0>>
        /\ built[k2].images[1].image = <<"image", 1>>
        /\ built[k2].images[2].image = <<"image", 0>>
        /\ built[k2].images[1].state # built[k2].images[2].state

\* The keys of the records and of the lookups of build, with the identifier
\* each stands for.
BufferKeyPairs ==
    UNION {{<<nodes[k].buffers[j], records[k].buffers[j][1]>> :
                j \in 1..Len(records[k].buffers)} : k \in 1..Len(records)}
    \cup UNION {{<<nodes[k].buffers[j], built[k].buffers[j].key>> :
                j \in 1..Len(built[k].buffers)} : k \in 1..Len(built)}
ImageKeyPairs ==
    UNION {{<<nodes[k].images[j], records[k].images[j][1]>> :
                j \in 1..Len(records[k].images)} : k \in 1..Len(records)}
    \cup UNION {{<<nodes[k].images[j], built[k].images[j].key>> :
                j \in 1..Len(built[k].images)} : k \in 1..Len(built)}

\* C4: every buffer key of a record or of a lookup of build is below the
\* buffer count and every image key is at or above it; no buffer and image
\* share a key, and distinct identifiers of one kind have distinct keys.
C4_KeysDisjoint ==
    /\ \A p \in BufferKeyPairs : p[2] >= 0 /\ p[2] < bufferCount
    /\ \A p \in ImageKeyPairs : p[2] >= bufferCount
    /\ \A p \in BufferKeyPairs : \A q \in ImageKeyPairs : p[2] # q[2]
    /\ \A p, q \in BufferKeyPairs : p[1] # q[1] => p[2] # q[2]
    /\ \A p, q \in ImageKeyPairs : p[1] # q[1] => p[2] # q[2]

C4_Witness ==
    /\ \E p, o \in BufferKeyPairs : p[1] = 0 /\ o[1] = 1
    /\ \E q, r \in ImageKeyPairs : q[1] = 0 /\ r[1] = 1
    /\ \E k \in 1..Len(built) : built[k].buffers # <<>> /\ built[k].images # <<>>

\* C5 as stated: the record of a builder holds each declared identifier once,
\* in order (as its key), and the bindings of its build are as many as the
\* identifiers declared.
C5_RoundTrip ==
    /\ \A k \in 1..Len(records) :
          /\ Len(records[k].buffers) = Len(nodes[k].buffers)
          /\ Len(records[k].images) = Len(nodes[k].images)
          /\ \A j \in 1..Len(records[k].buffers) :
                records[k].buffers[j][1] = nodes[k].buffers[j]
          /\ \A j \in 1..Len(records[k].images) :
                records[k].images[j][1] = ImageKeyOf(nodes[k].images[j])
    /\ \A k \in 1..Len(built) :
          /\ Len(built[k].buffers) = Len(nodes[k].buffers)
          /\ Len(built[k].images) = Len(nodes[k].images)

\* A node type no family of the list supports.
Unschedulable(b) ==
    \A k \in 1..Len(families) : ~supports(families[k].capability, b.desc.capability)

\* C7: for a node whose capability no family supports, family() is none, no
\* record is ever produced, and once the graph has tried to chain it the
\* construction has failed with nothing allocated and no build called.
C7_UnschedulableFailsAtChain ==
    \A k \in 1..Len(nodes) :
        Unschedulable(nodes[k]) =>
            /\ family(nodes[k].desc.capability, families) = None
            /\ Len(records) < k
            /\ ~allocated
            /\ built = <<>>
            /\ chains = NoSchedule
            /\ pc \in {"declare", "chain", "fault"}

C7_Witness ==
    /\ pc = "fault"
    /\ Len(nodes) = 2
    /\ Len(records) = 1
    /\ Unschedulable(nodes[2])
    /\ ~allocated

\* A builder whose identifier counts differ from its description's state counts.
Desynchronized(b) ==
    \/ Len(b.buffers) # Len(desc_buffers(b.desc))
    \/ Len(b.images) # Len(desc_images(b.desc))

\* C8 as stated: a desynchronized builder never gets a node built.
C8_DesyncIsFatal ==
    \A k \in 1..Len(built) : ~Desynchronized(nodes[k])


\* C6: family() returns the index of the first family of the list, in list
\* order, that supports the required capability, and none exactly when no
\* family of the list supports it.
C6_FirstSupportingFamily ==
    familyCall.some =>
        LET req == familyCall.value.required
            res == familyCall.value.result
            ok(k) == supports(families[k].capability, req)
        IN  /\ res.some <=> \E k \in 1..Len(families) : ok(k)
            /\ res.some =>
                  \E k \in 1..Len(families) :
                      /\ ok(k)
                      /\ \A j \in 1..(k - 1) : ~ok(j)
                      /\ res.value = families[k].index

\* Two families qualify and the index of the earlier one is returned.
C6_Witness ==
    /\ familyCall.some
    /\ Len(families) = 2
    /\ supports(families[1].capability, familyCall.value.required)
    /\ supports(families[2].capability, familyCall.value.required)
    /\ families[1].index # families[2].index
    /\ familyCall.value.result = Some(families[1].index)

\* C9: a call of AnyNode::run calls the typed run once and hands one
\* submission to the queue of qid: the payload of that typed run, the
\* caller's waits and signals in the caller's order, and the caller's fence.
C9_RunSubmitsOnce ==
    [][runCalls' # runCalls =>
          /\ runCalls' = runCalls + 1
          /\ typedRuns' = typedRuns + 1
          /\ call'.some /\ lastSubmit'.some
          /\ LET c == call'.value
                 s == lastSubmit'.value
             IN  /\ s.family = c.qid.family
                 /\ s.queue = c.qid.index
                 /\ s.fence = c.fence
                 /\ Len(s.submissions) = 1
                 /\ s.submissions[1].waits = c.waits
                 /\ s.submissions[1].signals = c.signals
                 /\ s.submissions[1].submits = <<[frame |-> typedRuns']>>
                 /\ \A q \in QueueIds :
                       submitted'[q] = submitted[q] + IF q = c.qid THEN 1 ELSE 0]_vars

C9_Witness ==
    /\ runCalls = 1
    /\ typedRuns = 1
    /\ call.some
    /\ call.value.waits = <<<<"s2", "BOTTOM_OF_PIPE">>, <<"s1", "TOP_OF_PIPE">>>>
    /\ call.value.signals = <<"s2", "s1">>
    /\ call.value.fence = Some("fence")
    /\ lastSubmit.value.submissions[1].waits = call.value.waits
    /\ submitted[call.value.qid] >= 1

\* The arguments of the calls of one kind, in call order.
Arguments(log, op) ==
    LET sel == SelectSeq(log, LAMBDA e : e.op = op)
    IN  [k \in 1..Len(sel) |-> sel[k].arg]
FollowsLog(b, log) ==
    /\ b.buffers = Arguments(log, "buffer")
    /\ b.images = Arguments(log, "image")
    /\ b.dependencies = Arguments(log, "dependency")

\* C10: a builder's buffer, image and dependency sequences are the arguments
\* of its buffer, image and dependency mutator calls in call order; chain
\* leaves the builder as it was and copies the dependencies to the record.
C10_MutatorsAppend ==
    /\ cur.some => FollowsLog(cur.value, curLog)
    /\ \A k \in 1..Len(nodes) : FollowsLog(nodes[k], logs[k])
    /\ \A k \in 1..Len(records) :
          records[k].dependencies = Arguments(logs[k], "dependency")

\* Buffers and dependencies added in descending order, interleaved, stay in
\* call order in the builder, and the dependencies reach the record unchanged.
C10_Witness ==
    /\ Len(records) = 1
    /\ logs[1] = <<[op |-> "buffer", arg |-> 1], [op |-> "dependency", arg |-> 1],
                   [op |-> "buffer", arg |-> 0], [op |-> "dependency", arg |-> 0]>>
    /\ nodes[1].buffers = <<1, 0>>
    /\ nodes[1].images = <<>>
    /\ nodes[1].dependencies = <<1, 0>>
    /\ records[1].dependencies = <<1, 0>>


====
